---- MODULE Spec2Model ----
(***************************************************************************)
(* Authentication and user-identity subsystem of MockVoid_Backend:         *)
(* the Express route table, the isLoggedIn middleware, the                 *)
(* UserAuthController, the AuthService, the AuthDao and the user           *)
(* collection behind Prisma.                                               *)
(*                                                                         *)
(* Spec      one HTTP request at a time: Receive, then the middleware      *)
(*           (protected routes), then the controller, each a whole         *)
(*           handler; every storage call is answered.                      *)
(* SpecConc  AuthService.createUser calls running concurrently, one step   *)
(*           per storage round-trip (each await).                          *)
(* SpecErr   ErrorHandler.createErrorResponse applied to errors of every   *)
(*           shape in every runtime environment.                           *)
(* SpecFault the request pipeline of Spec over a storage whose calls may   *)
(*           reject.                                                       *)
(***************************************************************************)
EXTENDS Integers, Sequences, FiniteSets, TLC

VARIABLES
  users,      \* the user collection, in insertion order
  now,        \* wall clock, seconds
  secretKey,  \* process.env.PRIVATE_TOKEN_KEY ("" when not configured)
  req,        \* the HTTP request being handled and its response
  issued,     \* tokens handed out in 201 responses (held by clients)
  procs,      \* concurrent AuthService.createUser calls (SpecConc)
  nodeEnv     \* process.env.NODE_ENV

vars == <<users, now, secretKey, req, issued, procs, nodeEnv>>

----------------------------------------------------------------------------
(* Bounds of the model *)

MaxUsers == 2
MaxTicks == 1
NumProcs == 2

(* Program constants *)

TOKEN_EXPIRY_SECONDS == 3600
BCRYPT_ROUNDS == 12
PASSWORD_MIN_LENGTH == 8
PASSWORD_MAX_LENGTH == 128
NAME_MIN_LENGTH == 2
NAME_MAX_LENGTH == 50
DEFAULT_USER_CREDITS == 1000

----------------------------------------------------------------------------
(* Values *)

Null == "NULL"

Has(obj, k) == k \in DOMAIN obj

\* JS truthiness of an optional string property
Truthy(obj, k) == Has(obj, k) /\ obj[k] # ""

IdOf(n) == "u" \o ToString(n)

UserIds == {IdOf(n) : n \in 1..(MaxUsers + 1)}
Emails == {"a@x.com", "b@x.com"}
PhoneNumbers == {"5551234567", "5559876543"}
Keys == {"k1", "k2"}
Times == {k * TOKEN_EXPIRY_SECONDS : k \in 0..MaxTicks}

WellFormedEmails == Emails
WellFormedCountryCodes == {"+1"}
WellFormedPhoneNumbers == PhoneNumbers
Roles == {"ADMIN", "USER"}

----------------------------------------------------------------------------
(* jsonwebtoken *)

JwtEncode(claims, key) ==
  claims.userId \o "." \o ToString(claims.iat) \o "." \o ToString(claims.exp)
    \o "." \o "hs256:" \o key

JwtClaims ==
  [userId : UserIds, iat : Times,
   exp : {t + d : t \in Times, d \in {TOKEN_EXPIRY_SECONDS, 2 * TOKEN_EXPIRY_SECONDS}}]

\* the (claims, key) pairs a token string decodes to: none for a malformed one
JwtDecode(token) ==
  {ck \in JwtClaims \X Keys : JwtEncode(ck[1], ck[2]) = token}

JwtSign(userId, key, t) ==
  JwtEncode([userId |-> userId, iat |-> t, exp |-> t + TOKEN_EXPIRY_SECONDS], key)

\* jwt.verify: the signature matches the key and the token has not expired
JwtVerifyOk(token, key, t) ==
  \E ck \in JwtDecode(token) : ck[2] = key /\ t < ck[1].exp

JwtPayload(token) == (CHOOSE ck \in JwtDecode(token) : TRUE)[1]

----------------------------------------------------------------------------
(* bcryptjs *)

BcryptHash(password, rounds) == "$2a$" \o ToString(rounds) \o "$" \o password

----------------------------------------------------------------------------
(* The user collection behind the Prisma client *)

OptField(data, k) == IF Has(data, k) THEN data[k] ELSE Null

\* prisma.user.create: the record gets a fresh id and the schema defaults
PrismaUserCreate(us, data, t) ==
  Append(us,
    [id |-> IdOf(Len(us) + 1),
     email |-> data.email,
     name |-> data.name,
     role |-> data.role,
     isVerified |-> data.isVerified,
     phone |-> data.phone,
     credits |-> DEFAULT_USER_CREDITS,
     password |-> OptField(data, "password"),
     provider |-> OptField(data, "provider"),
     providerId |-> OptField(data, "providerId"),
     isDeleted |-> FALSE,
     createdAt |-> t,
     updatedAt |-> t])

\* prisma.user.findFirst({ where }): the first of the records the filter
\* selects (hits: their positions), or null (the empty sequence)
PrismaUserFindFirst(us, hits) ==
  IF hits = {} THEN <<>>
  ELSE <<us[CHOOSE i \in hits : \A j \in hits : i <= j]>>

\* the index of the record prisma.user.update({ where: { id } }) addresses
IndexOfId(us, id) == {i \in 1..Len(us) : us[i].id = id}

\* mutant: the write replaces the record, stamping createdAt anew
PrismaUserUpdate_Replace(us, id, data, t) ==
  IF IndexOfId(us, id) = {}
  THEN [ok |-> FALSE, users |-> us, user |-> <<>>,
        error |-> "Record to update not found."]
  ELSE LET i == CHOOSE j \in IndexOfId(us, id) : TRUE
           u == [k \in DOMAIN us[i] |->
                   IF k \in DOMAIN data THEN data[k]
                   ELSE IF k \in {"updatedAt", "createdAt"} THEN t
                   ELSE us[i][k]]
       IN [ok |-> TRUE, users |-> [us EXCEPT ![i] = u], user |-> <<u>>,
           error |-> ""]

\* prisma.user.update({ where: { id }, data }): rejects when no record has
\* the id, otherwise writes the given fields and the @updatedAt column
PrismaUserUpdate(us, id, data, t) ==
  IF IndexOfId(us, id) = {}
  THEN [ok |-> FALSE, users |-> us, user |-> <<>>,
        error |-> "Record to update not found."]
  ELSE LET i == CHOOSE j \in IndexOfId(us, id) : TRUE
           u == [k \in DOMAIN us[i] |->
                   IF k \in DOMAIN data THEN data[k]
                   ELSE IF k = "updatedAt" THEN t
                   ELSE us[i][k]]
       IN [ok |-> TRUE, users |-> [us EXCEPT ![i] = u], user |-> <<u>>,
           error |-> ""]

----------------------------------------------------------------------------
(* AuthDao *)

\* mutant: the write replaces an active record with the same email
DaoCreateUser_Upsert(us, userData, t) ==
  LET same == {i \in 1..Len(us) :
                 ~us[i].isDeleted /\ us[i].email = userData.email}
      us2 == IF same = {} THEN PrismaUserCreate(us, userData, t)
             ELSE LET i == CHOOSE j \in same : TRUE
                  IN [us EXCEPT ![i] =
                        [PrismaUserCreate(us, userData, t)[Len(us) + 1]
                           EXCEPT !.id = us[i].id]]
      k == IF same = {} THEN Len(us2) ELSE CHOOSE j \in same : TRUE
  IN [ok |-> TRUE, users |-> us2, user |-> <<us2[k]>>, error |-> ""]

DaoCreateUser(us, userData, t) ==
  LET us2 == PrismaUserCreate(us, userData, t)
  IN [ok |-> TRUE, users |-> us2, user |-> <<us2[Len(us2)]>>, error |-> ""]

\* mutant: the filter forgets isDeleted: false
DaoWhere_IgnoresDeleted(accessType, id, u) ==
  /\ accessType = "email" => u.email = id
  /\ accessType = "id" => u.id = id
  /\ accessType = "phone" => u.phone.number = id

DaoWhere(accessType, id, u) ==
  /\ accessType = "email" => u.email = id
  /\ accessType = "id" => u.id = id
  /\ accessType = "phone" => u.phone.number = id
  /\ u.isDeleted = FALSE

DaoGetUserByAttrb(us, accessType, id) ==
  PrismaUserFindFirst(us,
    {i \in 1..Len(us) : DaoWhere(accessType, id, us[i])})

\* prisma.user.findMany({ where: { isDeleted: false }, orderBy: createdAt desc })
RECURSIVE SortByCreatedAtDesc(_)
SortByCreatedAtDesc(s) ==
  IF s = <<>> THEN <<>>
  ELSE LET i == CHOOSE j \in 1..Len(s) :
                  \A k \in 1..Len(s) :
                     \/ s[k].createdAt < s[j].createdAt
                     \/ (s[k].createdAt = s[j].createdAt /\ j <= k)
           rest == [k \in 1..(Len(s) - 1) |-> IF k < i THEN s[k] ELSE s[k + 1]]
       IN <<s[i]>> \o SortByCreatedAtDesc(rest)

\* mutant: findMany without orderBy, the records come in insertion order
DaoGetAllUsers_Unordered(us) ==
  SelectSeq(us, LAMBDA u : u.isDeleted = FALSE)

DaoGetAllUsers(us) ==
  SortByCreatedAtDesc(SelectSeq(us, LAMBDA u : u.isDeleted = FALSE))

\* mutant: an update brings a soft-deleted record back
DaoUpdateUser_Restores(us, id, userData, t) ==
  PrismaUserUpdate(us, id, userData @@ [isDeleted |-> FALSE], t)

DaoUpdateUser(us, id, userData, t) == PrismaUserUpdate(us, id, userData, t)

DaoDeleteUser(us, id, t) == PrismaUserUpdate(us, id, [isDeleted |-> TRUE], t)

----------------------------------------------------------------------------
(* UserDto *)

\* mutant: toJSON spreads the stored record's credential material too
UserDto_WithCredentials(user) ==
  [id |-> user.id,
   email |-> user.email,
   name |-> user.name,
   isVerified |-> user.isVerified,
   phone |-> user.phone,
   role |-> user.role,
   credits |-> IF user.credits = 0 THEN DEFAULT_USER_CREDITS ELSE user.credits,
   createdAt |-> user.createdAt,
   updatedAt |-> user.updatedAt,
   password |-> user.password,
   provider |-> user.provider]

UserDto(user) ==
  [id |-> user.id,
   email |-> user.email,
   name |-> user.name,
   isVerified |-> user.isVerified,
   phone |-> user.phone,
   role |-> user.role,
   credits |-> IF user.credits = 0 THEN DEFAULT_USER_CREDITS ELSE user.credits,
   createdAt |-> user.createdAt,
   updatedAt |-> user.updatedAt]

----------------------------------------------------------------------------
(* AuthService *)

\* mutant: the token is signed with twice the configured lifetime
GenerateToken_TwoHours(userId, key, t) ==
  IF key = ""
  THEN [ok |-> FALSE, token |-> "", error |-> "JWT secret not configured"]
  ELSE [ok |-> TRUE,
        token |-> JwtEncode([userId |-> userId, iat |-> t,
                             exp |-> t + 2 * TOKEN_EXPIRY_SECONDS], key),
        error |-> ""]

\* generateToken: throws when the secret is not configured
GenerateToken(userId, key, t) ==
  IF key = ""
  THEN [ok |-> FALSE, token |-> "", error |-> "JWT secret not configured"]
  ELSE [ok |-> TRUE, token |-> JwtSign(userId, key, t), error |-> ""]

\* mutant: the uniqueness check also counts soft-deleted users
ExistingUser_CountsDeleted(us, userData) ==
  \E i \in 1..Len(us) :
    \/ us[i].email = userData.email
    \/ us[i].phone.number = userData.phone.number

\* the uniqueness check of createUser: two lookups among the active users
ExistingUser(us, userData) ==
  \/ DaoGetUserByAttrb(us, "email", userData.email) # <<>>
  \/ DaoGetUserByAttrb(us, "phone", userData.phone.number) # <<>>

\* the password is hashed for local users only
HashedUserData(userData) ==
  IF ~Truthy(userData, "provider") /\ Truthy(userData, "password")
  THEN [userData EXCEPT !.password = BcryptHash(@, BCRYPT_ROUNDS)]
  ELSE userData

\* mutant: a token is generated for federated users too
CreateUserResponse_AlwaysToken(us2, user, userData, key, t) ==
  LET tok == GenerateToken(user.id, key, t)
  IN IF tok.ok
     THEN [ok |-> TRUE, users |-> us2, user |-> <<UserDto(user)>>,
           token |-> tok.token, error |-> ""]
     ELSE [ok |-> FALSE, users |-> us2, user |-> <<>>, token |-> "",
           error |-> tok.error]

\* what createUser does once the record is written: the DTO and, for local
\* users, the token
CreateUserResponse(us2, user, userData, key, t) ==
  LET tok == IF ~Truthy(userData, "provider")
             THEN GenerateToken(user.id, key, t)
             ELSE [ok |-> TRUE, token |-> "", error |-> ""]
  IN IF tok.ok
     THEN [ok |-> TRUE, users |-> us2, user |-> <<UserDto(user)>>,
           token |-> tok.token, error |-> ""]
     ELSE [ok |-> FALSE, users |-> us2, user |-> <<>>, token |-> "",
           error |-> tok.error]

SvcCreateUser(us, userData, key, t) ==
  IF ExistingUser(us, userData)
  THEN [ok |-> FALSE, users |-> us, user |-> <<>>, token |-> "",
        error |-> "User already exists."]
  ELSE IF ~Truthy(userData, "password") /\ ~Truthy(userData, "provider")
  THEN [ok |-> FALSE, users |-> us, user |-> <<>>, token |-> "",
        error |-> "Password is required for local users"]
  ELSE LET created == DaoCreateUser(us, HashedUserData(userData), t)
       IN CreateUserResponse(created.users, created.user[1], userData, key, t)

\* returns the DTO or null (the empty sequence)
SvcGetUserByAttrb(us, accessType, id) ==
  LET user == DaoGetUserByAttrb(us, accessType, id)
  IN IF user = <<>> THEN <<>> ELSE <<UserDto(user[1])>>

SvcGetAllUsers(us) ==
  LET all == DaoGetAllUsers(us)
  IN [i \in 1..Len(all) |-> UserDto(all[i])]

\* the DAO's rejection is rethrown; null is returned only for a null user
SvcUpdateUser(us, userId, userData, t) ==
  LET r == DaoUpdateUser(us, userId, userData, t)
  IN IF ~r.ok
     THEN [ok |-> FALSE, users |-> r.users, user |-> <<>>, error |-> r.error]
     ELSE [ok |-> TRUE, users |-> r.users,
           user |-> IF r.user = <<>> THEN <<>> ELSE <<UserDto(r.user[1])>>,
           error |-> ""]

\* value is the boolean the service returns when it does not throw
SvcDeleteUser(us, userId, t) ==
  LET r == DaoDeleteUser(us, userId, t)
  IN IF ~r.ok
     THEN [ok |-> FALSE, users |-> r.users, value |-> FALSE, error |-> r.error]
     ELSE [ok |-> TRUE, users |-> r.users, value |-> r.user # <<>>,
           error |-> ""]

----------------------------------------------------------------------------
(* A storage call that rejects (the database cannot be reached): every DAO  *)
(* method logs and rethrows, and so does every service method               *)

StorageError == "Can't reach database server"

\* the catch block of a DAO method: `throw error`
DaoRejected(us, error) ==
  [ok |-> FALSE, users |-> us, user |-> <<>>, error |-> error]

\* mutant: the service throws an error of its own in place of the DAO's
SvcRethrow_Wraps(r) ==
  [ok |-> FALSE, users |-> r.users, user |-> <<>>, token |-> "",
   value |-> FALSE, error |-> "Service unavailable"]

\* the catch block of a service method: `throw error`
SvcRethrow(r) ==
  [ok |-> FALSE, users |-> r.users, user |-> <<>>, token |-> "",
   value |-> FALSE, error |-> r.error]

----------------------------------------------------------------------------
(* Auth.validator: the Joi schemas as validateRequest runs them, with        *)
(* abortEarly: false, so every failing rule of every key contributes its     *)
(* message, in schema order; the empty list stands for error: null           *)

AGE_MIN == 1
AGE_MAX == 120
CITY_MIN_LENGTH == 2
CITY_MAX_LENGTH == 50
WellFormedZipCodes == {"12345"}

\* mutant: abortEarly: true, only the first failing rule reports
Flatten_AbortEarly(ss) ==
  LET failing == {i \in 1..Len(ss) : ss[i] # <<>>}
  IN IF failing = {} THEN <<>>
     ELSE <<ss[CHOOSE i \in failing : \A j \in failing : i <= j][1]>>

RECURSIVE Flatten(_)
Flatten(ss) == IF ss = <<>> THEN <<>> ELSE Head(ss) \o Flatten(Tail(ss))

\* the keys of obj outside `known`, in a fixed order
RECURSIVE SetToSeq(_)
SetToSeq(S) ==
  IF S = {} THEN <<>>
  ELSE LET x == CHOOSE y \in S : TRUE IN <<x>> \o SetToSeq(S \ {x})

UnknownKeyErrors(obj, known) ==
  LET ks == SetToSeq(DOMAIN obj \ known)
  IN [i \in 1..Len(ks) |-> "\"" \o ks[i] \o "\" is not allowed"]

EmailErrors(obj, required) ==
  IF ~Has(obj, "email")
  THEN IF required THEN <<"Email is required">> ELSE <<>>
  ELSE IF obj.email = "" THEN <<"Email should not be empty">>
  ELSE (IF obj.email \in WellFormedEmails THEN <<>>
        ELSE <<"Email should be a valid email address">>)
       \o (IF obj.email \in WellFormedEmails THEN <<>>
           ELSE <<"Email format is invalid">>)

LengthErrors(obj, k, label, min, max, required) ==
  IF ~Has(obj, k)
  THEN IF required THEN <<label \o " is required">> ELSE <<>>
  ELSE IF obj[k] = "" THEN <<label \o " should not be empty">>
  ELSE IF Len(obj[k]) < min
  THEN <<label \o " should be at least " \o ToString(min) \o " characters long">>
  ELSE IF Len(obj[k]) > max
  THEN <<label \o " should not exceed " \o ToString(max) \o " characters">>
  ELSE <<>>

RoleErrors(obj) ==
  IF ~Has(obj, "role") THEN <<"Role is required">>
  ELSE IF obj.role = "" THEN <<"Role should not be empty">>
  ELSE IF obj.role \notin Roles
  THEN <<"Role must be one of the following: ADMIN, USER">>
  ELSE <<>>

IsVerifiedErrors(obj) ==
  IF ~Has(obj, "isVerified") THEN <<"isVerified is required">>
  ELSE IF obj.isVerified \notin BOOLEAN
  THEN <<"isVerified should be a boolean">>
  ELSE <<>>

PatternErrors(obj, k, label, ok, hint) ==
  IF ~Has(obj, k) THEN <<label \o " is required">>
  ELSE IF obj[k] = "" THEN <<label \o " should not be empty">>
  ELSE IF obj[k] \notin ok THEN <<label \o " format is invalid " \o hint>>
  ELSE <<>>

PhoneErrors(obj) ==
  IF ~Has(obj, "phone") THEN <<"Phone is required">>
  ELSE PatternErrors(obj.phone, "countryCode", "Country code",
                     WellFormedCountryCodes, "(use format: +1)")
       \o PatternErrors(obj.phone, "number", "Phone number",
                        WellFormedPhoneNumbers, "(use format: 1234567890)")
       \o UnknownKeyErrors(obj.phone, {"countryCode", "number"})

ProviderErrors(obj) ==
  IF Has(obj, "provider") /\ obj.provider = ""
  THEN <<"Provider should not be empty">>
  ELSE <<>>

\* providerId: required when provider exists, forbidden otherwise
ProviderIdErrors(obj) ==
  IF Has(obj, "provider")
  THEN IF ~Has(obj, "providerId")
       THEN <<"Provider ID is required when provider is specified">>
       ELSE IF obj.providerId = "" THEN <<"Provider ID should not be empty">>
       ELSE <<>>
  ELSE IF Has(obj, "providerId")
       THEN <<"Provider ID should only be provided with a provider">>
       ELSE <<>>

\* mutant: the schema without its .xor rule
XorErrors_NoRule(obj) == <<>>

\* mutant: .or('password', 'provider') in place of .xor
XorErrors_AtLeastOne(obj) ==
  IF ~Has(obj, "password") /\ ~Has(obj, "provider")
  THEN <<"\"value\" must contain at least one of [password, provider]">>
  ELSE <<>>

\* .xor('password', 'provider'): exactly one of the two keys is present
XorErrors(obj) ==
  IF Has(obj, "password") /\ Has(obj, "provider")
  THEN <<"Either password or provider must be provided, but not both">>
  ELSE IF ~Has(obj, "password") /\ ~Has(obj, "provider")
  THEN <<"\"value\" must contain at least one of [password, provider]">>
  ELSE <<>>

\* the messages of each rule of the create schema, in schema order
CreateUserFieldErrors(obj) ==
  <<EmailErrors(obj, TRUE),
    LengthErrors(obj, "name", "Name", NAME_MIN_LENGTH, NAME_MAX_LENGTH, TRUE),
    RoleErrors(obj),
    IsVerifiedErrors(obj),
    PhoneErrors(obj),
    LengthErrors(obj, "password", "Password", PASSWORD_MIN_LENGTH,
                 PASSWORD_MAX_LENGTH, FALSE),
    ProviderErrors(obj),
    ProviderIdErrors(obj),
    UnknownKeyErrors(obj, {"email", "name", "role", "isVerified", "phone",
                           "password", "provider", "providerId"}),
    XorErrors(obj) >>

CreateUserApiRequestValidator(obj) == Flatten(CreateUserFieldErrors(obj))

AgeErrors(obj) ==
  IF ~Has(obj, "age") THEN <<>>
  ELSE IF obj.age < AGE_MIN
  THEN <<"Age should be at least " \o ToString(AGE_MIN)>>
  ELSE IF obj.age > AGE_MAX
  THEN <<"Age should not exceed " \o ToString(AGE_MAX)>>
  ELSE <<>>

ZipCodeErrors(obj) ==
  IF ~Has(obj, "zipCode") THEN <<>>
  ELSE IF obj.zipCode = "" THEN <<"Zip code should not be empty">>
  ELSE IF obj.zipCode \notin WellFormedZipCodes
  THEN <<"Zip code format is invalid (use format: 12345 or 12345-6789)">>
  ELSE <<>>

\* the messages of each rule of the update schema, in schema order
UpdateUserFieldErrors(obj) ==
  <<EmailErrors(obj, FALSE),
    LengthErrors(obj, "name", "Name", NAME_MIN_LENGTH, NAME_MAX_LENGTH, FALSE),
    AgeErrors(obj),
    LengthErrors(obj, "city", "City", CITY_MIN_LENGTH, CITY_MAX_LENGTH, FALSE),
    ZipCodeErrors(obj),
    UnknownKeyErrors(obj, {"email", "name", "age", "city", "zipCode"}) >>

UpdateUserApiRequestValidator(obj) == Flatten(UpdateUserFieldErrors(obj))

----------------------------------------------------------------------------
(* ErrorHandler *)

EmptyObj == [k \in {} |-> ""]

CreateValidationErrorResponse(validationErrors, r, t) ==
  [success |-> FALSE,
   message |-> "Validation Error",
   error |-> "Request validation failed",
   details |-> validationErrors,
   timestamp |-> t,
   path |-> r.route,
   method |-> r.method]

\* mutant: the message does not name the resource
CreateNotFoundErrorResponse_Generic(resource, r, t) ==
  [success |-> FALSE,
   message |-> "Not found",
   error |-> "The requested user could not be found",
   timestamp |-> t,
   path |-> r.route,
   method |-> r.method]

CreateNotFoundErrorResponse(resource, r, t) ==
  [success |-> FALSE,
   message |-> resource \o " not found",
   error |-> "The requested user could not be found",
   timestamp |-> t,
   path |-> r.route,
   method |-> r.method]

NodeEnvs == {"development", "production", "staging", "test"}

\* formatStackTrace: the stack's lines without the first (the message) and
\* without empty ones; the empty sequence stands for undefined and for ''
FormatStackTrace(stack) ==
  IF stack = <<>> THEN <<>>
  ELSE SelectSeq(Tail(stack), LAMBDA line : line # "")

\* extractPrismaErrorInfo: a Prisma error's code becomes details
ExtractPrismaErrorInfo(error) ==
  [message |-> error.message,
   details |-> IF error.code # "" THEN [code |-> error.code] ELSE EmptyObj]

\* mutant: the stack is withheld in production only
CreateErrorResponse_StackOutsideProduction(error, r, additionalInfo, t, env) ==
  LET info == ExtractPrismaErrorInfo(error)
      stack == FormatStackTrace(error.stack)
      base == [success |-> FALSE,
               message |-> "Internal Server Error",
               error |-> info.message,
               timestamp |-> t,
               path |-> r.route,
               method |-> r.method,
               details |-> additionalInfo @@ info.details]
  IN IF env # "production" /\ stack # <<>>
     THEN base @@ [stack |-> stack]
     ELSE base

\* createErrorResponse, with a request context and additionalInfo (every
\* caller passes both); additionalInfo is spread over the details last
CreateErrorResponse(error, r, additionalInfo, t, env) ==
  LET info == ExtractPrismaErrorInfo(error)
      stack == FormatStackTrace(error.stack)
      base == [success |-> FALSE,
               message |-> "Internal Server Error",
               error |-> info.message,
               timestamp |-> t,
               path |-> r.route,
               method |-> r.method,
               details |-> additionalInfo @@ info.details]
  IN IF env = "development" /\ stack # <<>>
     THEN base @@ [stack |-> stack]
     ELSE base

\* the Error object a throw site or a rejected prisma.user.update produces
ThrownError(errorMessage) ==
  [message |-> errorMessage,
   stack |-> <<"Error: " \o errorMessage, "    at AuthService">>,
   code |-> IF errorMessage = "Record to update not found." THEN "P2025"
            ELSE ""]

\* handleError: logs, then createErrorResponse
HandleError(errorMessage, r, additionalInfo, t) ==
  CreateErrorResponse(ThrownError(errorMessage), r, additionalInfo, t, nodeEnv)

----------------------------------------------------------------------------
(* logger: the events a POST /auth emits, in order. An event carries its    *)
(* message, the request payloads among its variables (objects) and the      *)
(* scalar variables (strings); logMessage prints them all with              *)
(* JSON.stringify, nothing is redacted.                                     *)

Range(seq) == {seq[i] : i \in DOMAIN seq}

LogEvent(message, objects, strings) ==
  [message |-> message, objects |-> objects, strings |-> strings]

\* AuthDao.createUser: variables { userData }, then { userId, email }
DaoCreateUserLog(userData, user) ==
  <<LogEvent("[DAO] Processing request to create a new user", <<userData>>, {}),
    LogEvent("[DAO] User created successfully", <<>>, {user.id, user.email})>>

\* generateToken logs only when it throws: variables { userId, error }
GenerateTokenLog(userId, key) ==
  IF key = ""
  THEN <<LogEvent("[SERVICE] Error generating token", <<>>,
                  {userId, "JWT secret not configured"})>>
  ELSE <<>>

\* the catch block of AuthService.createUser: variables { error, userData }
SvcCreateUserErrorLog(error, userData) ==
  <<LogEvent("[SERVICE] Error creating user", <<userData>>, {error})>>

\* AuthService.createUser; userData.password is overwritten by the hash
\* before the DAO is called, and the catch block logs userData as it is then
SvcCreateUserLog(us, userData, key, t) ==
  <<LogEvent("[SERVICE] Processing request to create a new user",
             <<userData>>, {})>>
  \o IF ExistingUser(us, userData)
     THEN <<LogEvent("[SERVICE] User already exists.", <<>>, {userData.email})>>
          \o SvcCreateUserErrorLog("User already exists.", userData)
     ELSE IF ~Truthy(userData, "password") /\ ~Truthy(userData, "provider")
     THEN SvcCreateUserErrorLog("Password is required for local users", userData)
     ELSE LET hashed == HashedUserData(userData)
              user == DaoCreateUser(us, hashed, t).user[1]
          IN DaoCreateUserLog(hashed, user)
             \o IF Truthy(userData, "provider")
                THEN <<LogEvent("[SERVICE] User created successfully", <<>>,
                                {user.id, user.email, userData.provider})>>
                ELSE IF GenerateToken(user.id, key, t).ok
                THEN <<LogEvent("[SERVICE] User created successfully", <<>>,
                                {user.id, user.email})>>
                ELSE GenerateTokenLog(user.id, key)
                     \o SvcCreateUserErrorLog("JWT secret not configured", hashed)

\* ErrorHandler.handleError: variables { error, stack, path, method,
\* ...additionalInfo }, the controller's additionalInfo carrying body: req.body
HandleErrorLog(customMessage, errorMessage, r, body) ==
  <<LogEvent(customMessage, <<body>>, {errorMessage, r.route, r.method})>>

\* a POST /auth whose first storage call (the lookup by email) rejects
CreateUserFaultLog(body, error, r) ==
  <<LogEvent("[CONTROLLER] Processing request to create a new user",
             <<body>>, {}),
    LogEvent("[SERVICE] Processing request to create a new user",
             <<body>>, {}),
    LogEvent("[DAO] Processing request to get user by email", <<>>,
             {body.email}),
    LogEvent("[DAO] Error getting user by email", <<>>, {body.email, error})>>
  \o SvcCreateUserErrorLog(error, body)
  \o HandleErrorLog("Error creating user", error, r, body)

\* UserAuthController.createUser
CreateUserCtrlLog(us, body, key, t, r) ==
  <<LogEvent("[CONTROLLER] Processing request to create a new user",
             <<body>>, {})>>
  \o IF CreateUserApiRequestValidator(body) # <<>>
     THEN <<LogEvent("[CONTROLLER] Validation error in create user request",
                     <<body>>, Range(CreateUserApiRequestValidator(body)))>>
     ELSE LET result == SvcCreateUser(us, body, key, t)
          IN SvcCreateUserLog(us, body, key, t)
             \o IF result.ok
                THEN <<LogEvent("[CONTROLLER] User created successfully", <<>>,
                                {result.user[1].id, result.user[1].email})>>
                ELSE HandleErrorLog("Error creating user", result.error, r, body)

----------------------------------------------------------------------------
(* Auth.router: the handler chain of every route. GET /auth/:userId has no  *)
(* route in the router, so it falls through to the application's catch-all *)

RouteChain(method, route) ==
  CASE method = "POST" /\ route = "/auth" -> <<"createUser">>
    [] method = "GET" /\ route = "/auth" -> <<"isLoggedIn", "getAllUsers">>
    [] method = "GET" /\ route = "/auth/:accessType/:userId" ->
         <<"isLoggedIn", "getUserByAttrb">>
    [] method = "PATCH" /\ route = "/auth/:userId" ->
         <<"isLoggedIn", "updateUser">>
    [] method = "DELETE" /\ route = "/auth/:userId" ->
         <<"isLoggedIn", "deleteUser">>
    [] method = "GET" /\ route = "/auth/:userId" -> <<"routeNotFound">>
    [] OTHER -> <<>>

Routes ==
  {<<"POST", "/auth">>, <<"GET", "/auth">>,
   <<"GET", "/auth/:accessType/:userId">>, <<"GET", "/auth/:userId">>,
   <<"PATCH", "/auth/:userId">>, <<"DELETE", "/auth/:userId">>}

Protected(r) == Len(RouteChain(r.method, r.route)) = 2

----------------------------------------------------------------------------
(* What clients send *)

ForgedToken == JwtSign(IdOf(1), "k2", 0)
GarbageToken == "garbage"

\* the Authorization header, as the words a split on ' ' yields
HeaderSets ==
  {EmptyObj}
  \cup {[authorization |-> <<"Bearer", tok>>] : tok \in issued \cup {ForgedToken}}
  \cup {[authorization |-> <<tok>>] : tok \in issued}
  \cup {("x-api-key" :> tok) : tok \in issued \cup {GarbageToken}}
  \cup {[authorization |-> <<"Bearer", GarbageToken>>] @@ ("x-api-key" :> tok) :
          tok \in issued}
  \cup {[authorization |-> <<"Bearer", tok>>] @@ ("x-api-key" :> GarbageToken) :
          tok \in issued}

BaseBody(e, p) ==
  [email |-> e, name |-> "Ann", role |-> "USER", isVerified |-> FALSE,
   phone |-> [countryCode |-> "+1", number |-> p]]

LocalCredential == [password |-> "longpassword1"]
FederatedCredential == [provider |-> "google", providerId |-> "g-1"]

CreateBodies ==
  {BaseBody(e, p) @@ c :
     e \in Emails, p \in PhoneNumbers,
     c \in {LocalCredential, FederatedCredential}}
  \cup {BaseBody(e, "5551234567") @@ c :
          e \in Emails,
          c \in {EmptyObj, LocalCredential @@ FederatedCredential}}
  \cup {[BaseBody("invalid-email", "5551234567") EXCEPT !.name = "A"]
          @@ LocalCredential}

UpdateBodies ==
  {[name |-> "Bob"], [email |-> "a@x.com"], [name |-> "B", zipCode |-> "1"],
   [role |-> "ADMIN"]}

AttrbParams ==
  {[accessType |-> "id", userId |-> id] : id \in UserIds}
  \cup {[accessType |-> "email", userId |-> e] : e \in Emails}
  \cup {[accessType |-> "phone", userId |-> p] : p \in PhoneNumbers}
  \cup {[accessType |-> "name", userId |-> "Ann"]}

----------------------------------------------------------------------------
(* The request pipeline: one request at a time *)

IdleReq ==
  [method |-> "", route |-> "", chain |-> <<>>, headers |-> EmptyObj,
   params |-> EmptyObj, body |-> EmptyObj, user |-> <<>>, status |-> 0,
   resBody |-> EmptyObj, svcCalls |-> 0, pre |-> <<>>, log |-> <<>>,
   fault |-> FALSE]

IdleProc ==
  [pc |-> "idle", userData |-> EmptyObj, existingUserEmail |-> <<>>,
   result |-> <<>>]

IdleProcs == [p \in 1..NumProcs |-> IdleProc]

Init ==
  /\ users = <<>>
  /\ now = 0
  /\ secretKey \in {"k1", ""}
  /\ req = IdleReq
  /\ issued = {}
  /\ procs = IdleProcs
  /\ nodeEnv = "production"

\* Express dispatches a request to the first handler of its route
Receive(method, route) ==
  /\ req.chain = <<>>
  /\ \A p \in 1..NumProcs : procs[p].pc = "idle"
  /\ method = "POST" => Len(users) < MaxUsers
  /\ req' = [IdleReq EXCEPT !.method = method, !.route = route,
                            !.chain = RouteChain(method, route),
                            !.pre = users]
  /\ UNCHANGED <<users, now, secretKey, nodeEnv, issued, procs>>

Respond(r, status, resBody) ==
  [r EXCEPT !.chain = <<>>, !.status = status, !.resBody = resBody]

\* mutant: the X-API-Key header is looked at first
ExtractToken_ApiKeyFirst(headers) ==
  IF Has(headers, "x-api-key") THEN headers["x-api-key"]
  ELSE IF Has(headers, "authorization")
  THEN IF Len(headers.authorization) >= 2 THEN headers.authorization[2] ELSE ""
  ELSE ""

\* the token isLoggedIn extracts: the Authorization header's second word,
\* else the X-API-Key header; "" stands for undefined
ExtractToken(headers) ==
  IF Has(headers, "authorization")
  THEN IF Len(headers.authorization) >= 2 THEN headers.authorization[2] ELSE ""
  ELSE IF Has(headers, "x-api-key") THEN headers["x-api-key"]
  ELSE ""

\* mutant: the catch block lets the request through
IsLoggedInResult_NextOnError(r, key, t) ==
  LET token == ExtractToken(r.headers)
  IN IF key = ""
     THEN Respond(r, 500, [message |-> "Server configuration error"])
     ELSE IF token = ""
     THEN Respond(r, 401,
            [message |-> "Access denied. No token provided.",
             hint |-> "Use Authorization: Bearer <token> or X-API-Key: <token> header"])
     ELSE IF ~JwtVerifyOk(token, key, t)
     THEN [r EXCEPT !.chain = Tail(@)]
     ELSE [r EXCEPT !.chain = Tail(@),
                    !.user = <<[userId |-> JwtPayload(token).userId,
                                iat |-> JwtPayload(token).iat,
                                exp |-> JwtPayload(token).exp]>>]

\* mutant: the token's user is looked up and must be a non-deleted record
IsLoggedInResult_ChecksStorage(r, key, t) ==
  LET token == ExtractToken(r.headers)
  IN IF key = ""
     THEN Respond(r, 500, [message |-> "Server configuration error"])
     ELSE IF token = ""
     THEN Respond(r, 401,
            [message |-> "Access denied. No token provided.",
             hint |-> "Use Authorization: Bearer <token> or X-API-Key: <token> header"])
     ELSE IF ~JwtVerifyOk(token, key, t)
     THEN [r EXCEPT !.chain = <<>>]
     ELSE IF DaoGetUserByAttrb(users, "id", JwtPayload(token).userId) = <<>>
     THEN Respond(r, 401, [message |-> "Access denied. Unknown user."])
     ELSE [r EXCEPT !.chain = Tail(@),
                    !.user = <<[userId |-> JwtPayload(token).userId,
                                iat |-> JwtPayload(token).iat,
                                exp |-> JwtPayload(token).exp]>>]

\* mutant: the token is looked for before the secret
IsLoggedInResult_TokenFirst(r, key, t) ==
  LET token == ExtractToken(r.headers)
  IN IF token = ""
     THEN Respond(r, 401,
            [message |-> "Access denied. No token provided.",
             hint |-> "Use Authorization: Bearer <token> or X-API-Key: <token> header"])
     ELSE IF key = ""
     THEN Respond(r, 500, [message |-> "Server configuration error"])
     ELSE IF ~JwtVerifyOk(token, key, t)
     THEN [r EXCEPT !.chain = <<>>]
     ELSE [r EXCEPT !.chain = Tail(@),
                    !.user = <<[userId |-> JwtPayload(token).userId,
                                iat |-> JwtPayload(token).iat,
                                exp |-> JwtPayload(token).exp]>>]

\* isLoggedIn, as a function of the request, the secret and the clock
IsLoggedInResult(r, key, t) ==
  LET token == ExtractToken(r.headers)
  IN IF key = ""
     THEN Respond(r, 500, [message |-> "Server configuration error"])
     ELSE IF token = ""
     THEN Respond(r, 401,
            [message |-> "Access denied. No token provided.",
             hint |-> "Use Authorization: Bearer <token> or X-API-Key: <token> header"])
     ELSE IF ~JwtVerifyOk(token, key, t)
     THEN \* jwt.verify throws; the catch block sends nothing
          [r EXCEPT !.chain = <<>>]
     ELSE \* next()
          [r EXCEPT !.chain = Tail(@),
                    !.user = <<[userId |-> JwtPayload(token).userId,
                                iat |-> JwtPayload(token).iat,
                                exp |-> JwtPayload(token).exp]>>]

IsLoggedIn(headers) ==
  /\ req.chain # <<>>
  /\ Head(req.chain) = "isLoggedIn"
  /\ req' = IsLoggedInResult([req EXCEPT !.headers = headers], secretKey, now)
  /\ UNCHANGED <<users, now, secretKey, nodeEnv, issued, procs>>

----------------------------------------------------------------------------
(* UserAuthController *)

AtHandler(name) == req.chain # <<>> /\ Head(req.chain) = name

\* fault: the storage call the service makes first rejects
CreateUserCtrl(body, fault) ==
  /\ AtHandler("createUser")
  /\ LET errors == CreateUserApiRequestValidator(body)
         failing == fault /\ errors = <<>>
         r == [req EXCEPT
                 !.body = body, !.fault = failing,
                 !.log = IF failing
                         THEN CreateUserFaultLog(body, StorageError, req)
                         ELSE CreateUserCtrlLog(users, body, secretKey, now,
                                                req)]
         result == IF failing
                   THEN SvcRethrow(DaoRejected(users, StorageError))
                   ELSE SvcCreateUser(users, body, secretKey, now)
     IN IF errors # <<>>
        THEN /\ req' = Respond(r, 400, CreateValidationErrorResponse(errors, r, now))
             /\ UNCHANGED <<users, issued>>
        ELSE /\ users' = result.users
             /\ IF result.ok
                THEN /\ req' = Respond([r EXCEPT !.svcCalls = 1], 201,
                                 [success |-> TRUE,
                                  message |-> "User created successfully",
                                  data |-> [user |-> result.user[1],
                                            token |-> result.token]])
                     /\ issued' = issued \cup ({result.token} \ {""})
                ELSE /\ req' = Respond([r EXCEPT !.svcCalls = 1], 500,
                                 HandleError(result.error, r,
                                   [methodName |-> "createUser", body |-> body],
                                   now))
                     /\ UNCHANGED issued
  /\ UNCHANGED <<now, secretKey, nodeEnv, procs>>

GetUserByAttrbCtrl(params, fault) ==
  /\ AtHandler("getUserByAttrb")
  /\ LET r == [req EXCEPT !.params = params]
         user == SvcGetUserByAttrb(users, params.accessType, params.userId)
     IN IF params.accessType \notin {"id", "email", "phone"}
        THEN req' = Respond(r, 500,
                      HandleError("Invalid access type. Must be \"id\", \"email\", or \"phone\".",
                        r, [methodName |-> "getUserByAttrb",
                            userId |-> params.userId], now))
        ELSE IF fault
        THEN req' = Respond([r EXCEPT !.svcCalls = 1, !.fault = TRUE], 500,
                      HandleError(
                        SvcRethrow(DaoRejected(users, StorageError)).error,
                        r, [methodName |-> "getUserByAttrb",
                            userId |-> params.userId], now))
        ELSE IF user = <<>>
        THEN req' = Respond([r EXCEPT !.svcCalls = 1], 404,
                      CreateNotFoundErrorResponse("User", r, now))
        ELSE req' = Respond([r EXCEPT !.svcCalls = 1], 200,
                      [success |-> TRUE,
                       message |-> "User retrieved successfully",
                       data |-> user[1]])
  /\ UNCHANGED <<users, now, secretKey, nodeEnv, issued, procs>>

GetAllUsersCtrl(fault) ==
  /\ AtHandler("getAllUsers")
  /\ req' = IF fault
            THEN Respond([req EXCEPT !.svcCalls = 1, !.fault = TRUE], 500,
                   HandleError(
                     SvcRethrow(DaoRejected(users, StorageError)).error,
                     req, [methodName |-> "getAllUsers"], now))
            ELSE Respond([req EXCEPT !.svcCalls = 1], 200,
                   [success |-> TRUE,
                    message |-> "Users retrieved successfully",
                    data |-> SvcGetAllUsers(users)])
  /\ UNCHANGED <<users, now, secretKey, nodeEnv, issued, procs>>

UpdateUserCtrl(userId, body, fault) ==
  /\ AtHandler("updateUser")
  /\ LET errors == UpdateUserApiRequestValidator(body)
         failing == fault /\ errors = <<>>
         r == [req EXCEPT !.params = [userId |-> userId], !.body = body,
                          !.fault = failing]
         result == IF failing
                   THEN SvcRethrow(DaoRejected(users, StorageError))
                   ELSE SvcUpdateUser(users, userId, body, now)
     IN IF errors # <<>>
        THEN /\ req' = Respond(r, 400, CreateValidationErrorResponse(errors, r, now))
             /\ UNCHANGED users
        ELSE /\ users' = result.users
             /\ IF ~result.ok
                THEN req' = Respond([r EXCEPT !.svcCalls = 1], 500,
                              HandleError(result.error, r,
                                [methodName |-> "updateUser", userId |-> userId,
                                 body |-> body], now))
                ELSE IF result.user = <<>>
                THEN req' = Respond([r EXCEPT !.svcCalls = 1], 404,
                              CreateNotFoundErrorResponse("User", r, now))
                ELSE req' = Respond([r EXCEPT !.svcCalls = 1], 200,
                              [success |-> TRUE,
                               message |-> "User updated successfully",
                               data |-> result.user[1]])
  /\ UNCHANGED <<now, secretKey, nodeEnv, issued, procs>>

DeleteUserCtrl(userId, fault) ==
  /\ AtHandler("deleteUser")
  /\ LET r == [req EXCEPT !.params = [userId |-> userId], !.svcCalls = 1,
                          !.fault = fault]
         result == IF fault
                   THEN SvcRethrow(DaoRejected(users, StorageError))
                   ELSE SvcDeleteUser(users, userId, now)
     IN /\ users' = result.users
        /\ IF ~result.ok
           THEN req' = Respond(r, 500,
                         HandleError(result.error, r,
                           [methodName |-> "deleteUser", userId |-> userId], now))
           ELSE IF ~result.value
           THEN req' = Respond(r, 404, CreateNotFoundErrorResponse("User", r, now))
           ELSE req' = Respond(r, 200,
                         [success |-> TRUE,
                          message |-> "User deleted successfully"])
  /\ UNCHANGED <<now, secretKey, nodeEnv, issued, procs>>

\* App.registerErrorHandlingRoutes: the catch-all of unmatched requests; it
\* runs no authentication and reads no header
RouteNotFound(userId, headers) ==
  /\ AtHandler("routeNotFound")
  /\ req' = Respond([req EXCEPT !.params = [userId |-> userId],
                                !.headers = headers], 404,
              [success |-> FALSE, message |-> "Route not found",
               path |-> req.route])
  /\ UNCHANGED <<users, now, secretKey, nodeEnv, issued, procs>>

\* time passes
Tick ==
  /\ now < MaxTicks * TOKEN_EXPIRY_SECONDS
  /\ now' = now + TOKEN_EXPIRY_SECONDS
  /\ UNCHANGED <<users, secretKey, nodeEnv, req, issued, procs>>

Next ==
  \/ \E m \in Routes : Receive(m[1], m[2])
  \/ \E headers \in HeaderSets : IsLoggedIn(headers)
  \/ \E body \in CreateBodies : CreateUserCtrl(body, FALSE)
  \/ \E params \in AttrbParams : GetUserByAttrbCtrl(params, FALSE)
  \/ GetAllUsersCtrl(FALSE)
  \/ \E userId \in UserIds, body \in UpdateBodies :
       UpdateUserCtrl(userId, body, FALSE)
  \/ \E userId \in UserIds : DeleteUserCtrl(userId, FALSE)
  \/ \E userId \in UserIds, headers \in HeaderSets : RouteNotFound(userId, headers)
  \/ Tick

Spec == Init /\ [][Next]_vars

----------------------------------------------------------------------------
(* The request pipeline over a storage whose calls may reject *)

FaultBodies ==
  {BaseBody("a@x.com", "5551234567") @@ LocalCredential,
   BaseBody("b@x.com", "5559876543") @@ FederatedCredential}

FaultHeaderSets ==
  {EmptyObj} \cup {[authorization |-> <<"Bearer", tok>>] : tok \in issued}

FaultAttrbParams ==
  {[accessType |-> "id", userId |-> IdOf(1)],
   [accessType |-> "email", userId |-> "b@x.com"]}

NextFault ==
  \/ \E m \in Routes \ {<<"GET", "/auth/:userId">>} : Receive(m[1], m[2])
  \/ \E headers \in FaultHeaderSets : IsLoggedIn(headers)
  \/ \E body \in FaultBodies, fault \in BOOLEAN : CreateUserCtrl(body, fault)
  \/ \E params \in FaultAttrbParams, fault \in BOOLEAN :
       GetUserByAttrbCtrl(params, fault)
  \/ \E fault \in BOOLEAN : GetAllUsersCtrl(fault)
  \/ \E userId \in UserIds, fault \in BOOLEAN :
       UpdateUserCtrl(userId, [name |-> "Bob"], fault)
  \/ \E userId \in UserIds, fault \in BOOLEAN : DeleteUserCtrl(userId, fault)

SpecFault == Init /\ [][NextFault]_vars

----------------------------------------------------------------------------
(* AuthService.createUser calls in flight together: one step per await *)

\* the service is handed a CreateUserRequest; it validates nothing itself
ConcBodies == CreateBodies

InFlight == {p \in 1..NumProcs : procs[p].pc \notin {"idle", "done"}}

CreateUserBegin(p, userData) ==
  /\ req.chain = <<>>
  /\ procs[p].pc \in {"idle", "done"}
  /\ Len(users) + Cardinality(InFlight) < MaxUsers
  /\ procs' = [procs EXCEPT ![p] = [IdleProc EXCEPT !.pc = "lookupEmail",
                                                    !.userData = userData]]
  /\ UNCHANGED <<users, now, secretKey, nodeEnv, req, issued>>

\* await authDao.getUserByAttrb({ accessType: 'email', ... })
CreateUserLookupEmail(p) ==
  /\ procs[p].pc = "lookupEmail"
  /\ procs' = [procs EXCEPT
       ![p].pc = "lookupPhone",
       ![p].existingUserEmail =
          DaoGetUserByAttrb(users, "email", procs[p].userData.email)]
  /\ UNCHANGED <<users, now, secretKey, nodeEnv, req, issued>>

Thrown(error) ==
  <<[ok |-> FALSE, users |-> <<>>, user |-> <<>>, token |-> "", error |-> error]>>

\* await authDao.getUserByAttrb({ accessType: 'phone', ... }), then the
\* checks up to the next await
CreateUserLookupPhone(p) ==
  /\ procs[p].pc = "lookupPhone"
  /\ LET userData == procs[p].userData
         existingUserPhone ==
           DaoGetUserByAttrb(users, "phone", userData.phone.number)
     IN procs' = [procs EXCEPT ![p] =
          IF procs[p].existingUserEmail # <<>> \/ existingUserPhone # <<>>
          THEN [@ EXCEPT !.pc = "done",
                         !.result = Thrown("User already exists.")]
          ELSE IF ~Truthy(userData, "password") /\ ~Truthy(userData, "provider")
          THEN [@ EXCEPT !.pc = "done",
                         !.result = Thrown("Password is required for local users")]
          ELSE IF ~Truthy(userData, "provider")
          THEN [@ EXCEPT !.pc = "hash"]
          ELSE [@ EXCEPT !.pc = "write"]]
  /\ UNCHANGED <<users, now, secretKey, nodeEnv, req, issued>>

\* userData.password = await hashedPassword
CreateUserHash(p) ==
  /\ procs[p].pc = "hash"
  /\ procs' = [procs EXCEPT ![p].pc = "write",
                            ![p].userData = HashedUserData(@)]
  /\ UNCHANGED <<users, now, secretKey, nodeEnv, req, issued>>

\* await authDao.createUser(userData), then the rest of the call
CreateUserWrite(p) ==
  /\ procs[p].pc = "write"
  /\ LET created == DaoCreateUser(users, procs[p].userData, now)
         result == CreateUserResponse(created.users, created.user[1],
                                      procs[p].userData, secretKey, now)
     IN /\ users' = created.users
        /\ procs' = [procs EXCEPT ![p].pc = "done",
                                  ![p].result = <<[result EXCEPT !.users = <<>>]>>]
        /\ issued' = issued \cup ({result.token} \ {""})
  /\ UNCHANGED <<now, secretKey, nodeEnv, req>>

NextConc ==
  \/ \E p \in 1..NumProcs, userData \in ConcBodies : CreateUserBegin(p, userData)
  \/ \E p \in 1..NumProcs : CreateUserLookupEmail(p)
  \/ \E p \in 1..NumProcs : CreateUserLookupPhone(p)
  \/ \E p \in 1..NumProcs : CreateUserHash(p)
  \/ \E p \in 1..NumProcs : CreateUserWrite(p)

SpecConc == Init /\ [][NextConc]_vars

----------------------------------------------------------------------------
(* ErrorHandler.createErrorResponse over errors of every shape, in every    *)
(* runtime environment                                                      *)

Errors ==
  [message : {"User already exists.", "Record to update not found.",
              "JWT secret not configured"},
   stack : {<<>>, <<"Error: boom">>,
            <<"Error: boom", "    at AuthService.createUser", "">>},
   code : {"", "P2025"}]

InitErr ==
  /\ users = <<>>
  /\ now = 0
  /\ secretKey \in {"k1", ""}
  /\ req = IdleReq
  /\ issued = {}
  /\ procs = IdleProcs
  /\ nodeEnv \in NodeEnvs

\* a controller's catch block: handleError's response sent with status 500
ClassifyError(error, method, route) ==
  /\ LET r == [IdleReq EXCEPT !.method = method, !.route = route,
                              !.pre = users]
     IN req' = Respond(r, 500,
                 CreateErrorResponse(error, r, [methodName |-> "handler"],
                                     now, nodeEnv))
  /\ UNCHANGED <<users, now, secretKey, issued, procs, nodeEnv>>

NextErr ==
  \E error \in Errors, m \in Routes : ClassifyError(error, m[1], m[2])

SpecErr == InitErr /\ [][NextErr]_vars

----------------------------------------------------------------------------
(* Vocabulary of the properties *)

\* a response has been sent for the current request
Responded == req.method # "" /\ req.chain = <<>> /\ req.status # 0

IsRoute(method, route) == req.method = method /\ req.route = route

ActiveIndexes(us) == {i \in 1..Len(us) : ~us[i].isDeleted}

\* the request's payload passed the create schema
ValidCreateBody(body) == CreateUserApiRequestValidator(body) = <<>>

----------------------------------------------------------------------------
(* C1: a schema-valid POST /auth whose email or phone number equals that of *)
(* an existing non-deleted user is answered 409 and stores nothing.         *)
C1_DuplicateAnswered409 ==
  (/\ Responded
   /\ IsRoute("POST", "/auth")
   /\ ValidCreateBody(req.body)
   /\ \E i \in ActiveIndexes(req.pre) :
        \/ req.pre[i].email = req.body.email
        \/ req.pre[i].phone.number = req.body.phone.number)
  => (req.status = 409 /\ users = req.pre)

BothCommitted(p, q) ==
  /\ p # q
  /\ procs[p].pc = "done" /\ procs[q].pc = "done"
  /\ procs[p].result[1].ok /\ procs[q].result[1].ok
  /\ procs[p].userData.email = procs[q].userData.email

BothOrNeither(body) ==
  \/ Has(body, "password") /\ Has(body, "provider")
  \/ ~Has(body, "password") /\ ~Has(body, "provider")

LocalCreated ==
  /\ Responded /\ IsRoute("POST", "/auth")
  /\ req.status = 201
  /\ ~Has(req.body, "provider")

FailedVerification ==
  /\ req.method # "" /\ Protected(req)
  /\ req.chain = <<>>
  /\ secretKey # ""
  /\ ExtractToken(req.headers) # ""
  /\ req.user = <<>>

C6_InvalidTokenAnswered401 ==
  FailedVerification => (req.status = 401 /\ req.svcCalls = 0)

(* C7: a protected request with neither an Authorization nor an X-API-Key   *)
(* header is answered 401 with a failure body whose success field is false, *)
(* and the controller is not invoked.                                       *)
NoCredentialHandled ==
  /\ req.method # "" /\ Protected(req)
  /\ req.chain = <<>>
  /\ secretKey # ""
  /\ ~Has(req.headers, "authorization") /\ ~Has(req.headers, "x-api-key")

C7_NoCredentialFailureBody ==
  NoCredentialHandled =>
    /\ req.status = 401
    /\ Has(req.resBody, "success") /\ req.resBody.success = FALSE
    /\ req.svcCalls = 0

(* C8: on a protected route the controller and the service run only after   *)
(* isLoggedIn verified the request's token and attached its claims.         *)
AttachedClaims(r) ==
  /\ r.user # <<>>
  /\ \E ck \in JwtDecode(ExtractToken(r.headers)) :
       /\ ck[2] = secretKey
       /\ r.user[1] = ck[1]

C8_AuthBeforeService ==
  [][/\ (Len(req.chain) = 2 /\ Len(req'.chain) = 1)
          => /\ JwtVerifyOk(ExtractToken(req'.headers), secretKey, now)
             /\ AttachedClaims(req')
     /\ (Protected(req') /\ req'.method # "" /\ req'.svcCalls > req.svcCalls)
          => /\ Len(req.chain) = 1
             /\ AttachedClaims(req)
             /\ req'.user = req.user]_vars

C8_Witness ==
  /\ Responded /\ Protected(req)
  /\ req.svcCalls > 0
  /\ req.status = 200
  /\ AttachedClaims(req)

(* C9: getUserByAttrb returns null when no non-deleted record matches the   *)
(* id, email or phone number asked for, and never returns a deleted record. *)
AttrbMatches(u, params) ==
  CASE params.accessType = "id" -> u.id = params.userId
    [] params.accessType = "email" -> u.email = params.userId
    [] params.accessType = "phone" -> u.phone.number = params.userId

LookupAnswered ==
  /\ Responded /\ IsRoute("GET", "/auth/:accessType/:userId")
  /\ req.svcCalls > 0

C10_UpdateOfInactiveIsNull ==
  (/\ Responded /\ IsRoute("PATCH", "/auth/:userId")
   /\ req.svcCalls > 0
   /\ ~\E i \in ActiveIndexes(req.pre) : req.pre[i].id = req.params.userId)
  => (req.status = 404 /\ users = req.pre)

(* C11: deleteUser(id) returns true (answered 200) only when it turns a     *)
(* non-deleted record into a deleted one; when no record has the id, or the *)
(* record is already deleted, it returns false (answered 404) and raises no *)
(* error.                                                                   *)
DeleteAnswered ==
  /\ Responded /\ IsRoute("DELETE", "/auth/:userId")
  /\ req.svcCalls > 0

C11_DeleteOutcome ==
  DeleteAnswered =>
    LET hits == {i \in ActiveIndexes(req.pre) :
                   req.pre[i].id = req.params.userId}
    IN /\ req.status = 200 =>
            \E i \in hits : users[i].isDeleted
       /\ hits = {} => req.status = 404

(* C12: a successful updateUser(id, partial) gives the fields present in    *)
(* partial their new values and sets updatedAt to the time of the write,    *)
(* which is never earlier than before; every other field of the record (id, *)
(* createdAt, isDeleted, the credential material) and every other record is *)
(* unchanged.                                                               *)
UpdateSucceeded ==
  /\ Responded /\ IsRoute("PATCH", "/auth/:userId")
  /\ req.status = 200

UpdateFrame(i) ==
  /\ req.pre[i].id = req.params.userId
  /\ Len(users) = Len(req.pre)
  /\ \A j \in 1..Len(users) : j # i => users[j] = req.pre[j]
  /\ DOMAIN users[i] = DOMAIN req.pre[i]
  /\ \A k \in DOMAIN req.pre[i] \ {"updatedAt"} :
       users[i][k] = IF k \in DOMAIN req.body THEN req.body[k]
                     ELSE req.pre[i][k]

AllUsersAnswered ==
  /\ Responded /\ IsRoute("GET", "/auth")
  /\ req.svcCalls > 0

C13_AllActiveNewestFirst ==
  AllUsersAnswered =>
    LET data == req.resBody.data
    IN /\ req.status = 200
       /\ Len(data) = Cardinality(ActiveIndexes(users))
       /\ \A i \in ActiveIndexes(users) :
            \E k \in 1..Len(data) : data[k] = UserDto(users[i])
       /\ \A k \in 1..Len(data) :
            \E i \in ActiveIndexes(users) : data[k] = UserDto(users[i])
       /\ \A k, l \in 1..Len(data) :
            k < l => /\ data[k].id # data[l].id
                     /\ data[k].createdAt >= data[l].createdAt

C13_Witness ==
  /\ AllUsersAnswered
  /\ Len(req.resBody.data) = 2
  /\ req.resBody.data[1].createdAt > req.resBody.data[2].createdAt

(* C14: a POST /auth or PATCH /auth/:userId whose payload fails its schema  *)
(* is answered 400 with details holding the messages of all failing rules   *)
(* of all fields together; the service is not invoked and storage is        *)
(* unchanged.                                                               *)
FieldErrorsOf(r) ==
  IF r.method = "POST" THEN CreateUserFieldErrors(r.body)
  ELSE UpdateUserFieldErrors(r.body)

ValidationFailed ==
  /\ Responded
  /\ IsRoute("POST", "/auth") \/ (IsRoute("PATCH", "/auth/:userId") /\ req.user # <<>>)
  /\ \E i \in DOMAIN FieldErrorsOf(req) : FieldErrorsOf(req)[i] # <<>>

C14_ValidationReportsAll ==
  ValidationFailed =>
    /\ req.status = 400
    /\ Has(req.resBody, "details")
    /\ Range(req.resBody.details) =
         UNION {Range(FieldErrorsOf(req)[i]) : i \in DOMAIN FieldErrorsOf(req)}
    /\ req.svcCalls = 0
    /\ users = req.pre

C14_Witness ==
  /\ ValidationFailed
  /\ IsRoute("POST", "/auth")
  /\ EmailErrors(req.body, TRUE) # <<>>
  /\ LengthErrors(req.body, "name", "Name", NAME_MIN_LENGTH, NAME_MAX_LENGTH,
                  TRUE) # <<>>
  /\ Len(req.resBody.details) >= 3
  /\ req.pre # <<>>

(* C15: an authenticated GET /auth/:accessType/:userId with accessType id,  *)
(* email or phone answers 200 with the DTO of a matching non-deleted user   *)
(* when there is one, and otherwise 404 with message 'User not found'; it   *)
(* never modifies storage.                                                  *)
AuthenticatedLookup ==
  /\ Responded /\ IsRoute("GET", "/auth/:accessType/:userId")
  /\ req.user # <<>>
  /\ req.params.accessType \in {"id", "email", "phone"}

C16_GetUserByIdEndpoint ==
  (Responded /\ IsRoute("GET", "/auth/:userId")) =>
    LET token == ExtractToken(req.headers)
        hits == {i \in ActiveIndexes(users) : users[i].id = req.params.userId}
    IN /\ token = "" => req.status = 401
       /\ (secretKey # "" /\ token # "" /\ JwtVerifyOk(token, secretKey, now)) =>
            /\ hits # {} =>
                 /\ req.status = 200
                 /\ req.resBody.data.id = req.params.userId
            /\ hits = {} =>
                 /\ req.status = 404
                 /\ req.resBody.message = "User not found"

(* C17: while the signing secret is unavailable, every request to a         *)
(* protected endpoint is answered 500 whatever credential headers it        *)
(* carries; no token is verified and no controller runs.                    *)
SecretUnavailableHandled ==
  /\ req.method # "" /\ Protected(req)
  /\ Len(req.chain) < 2
  /\ secretKey = ""

C17_SecretUnavailable500 ==
  SecretUnavailableHandled =>
    /\ req.chain = <<>>
    /\ req.status = 500
    /\ req.user = <<>>
    /\ req.svcCalls = 0
    /\ users = req.pre

C17_Witness ==
  /\ SecretUnavailableHandled
  /\ Has(req.headers, "authorization")
  /\ req.status = 500

(* C18: with both an Authorization and an X-API-Key header the outcome of   *)
(* authentication is that of the Authorization header alone; the X-API-Key  *)
(* value is used only when Authorization is absent, and then the outcome is *)
(* that of the same token sent as a bearer token.                           *)
SameOutcome(a, b) ==
  [a EXCEPT !.headers = EmptyObj] = [b EXCEPT !.headers = EmptyObj]

C18_BearerTakesPrecedence ==
  [][(/\ req.chain # <<>>
      /\ Head(req.chain) = "isLoggedIn"
      /\ req'.chain # req.chain)
     => LET h == req'.headers
            alone(hh) == IsLoggedInResult([req EXCEPT !.headers = hh],
                                          secretKey, now)
        IN /\ Has(h, "authorization") =>
                SameOutcome(req', alone([authorization |-> h.authorization]))
           /\ (~Has(h, "authorization") /\ Has(h, "x-api-key")) =>
                SameOutcome(req',
                  alone([authorization |-> <<"Bearer", h["x-api-key"]>>]))]_vars

C18_Witness ==
  /\ req.method # "" /\ Protected(req)
  /\ Has(req.headers, "authorization") /\ Has(req.headers, "x-api-key")
  /\ JwtVerifyOk(req.headers["x-api-key"], secretKey, now)
  /\ req.chain = <<>> /\ req.status = 0 /\ req.user = <<>>

(* C19: every user object in a success response of createUser,              *)
(* getUserByAttrb, getAllUsers or updateUser has exactly the fields id,     *)
(* email, name, role, isVerified, phone, credits, createdAt, updatedAt, and *)
(* so never the password hash, provider, providerId or isDeleted.           *)
DtoFields ==
  {"id", "email", "name", "role", "isVerified", "phone", "credits",
   "createdAt", "updatedAt"}

SuccessResponse == Responded /\ req.status \in {200, 201}

LoggedValues(e) ==
  e.strings \cup
    {e.objects[j].password :
       j \in {k \in DOMAIN e.objects : Has(e.objects[k], "password")}}

C20_NoSecretsLogged ==
  \A i \in DOMAIN req.log :
    /\ secretKey # "" => secretKey \notin LoggedValues(req.log[i])
    /\ Has(req.body, "password") =>
         /\ req.body.password \notin LoggedValues(req.log[i])
         /\ BcryptHash(req.body.password, BCRYPT_ROUNDS)
              \notin LoggedValues(req.log[i])

(* C21: an error response of the ErrorHandler has a stack field only when   *)
(* the runtime environment is development; in production, staging and test  *)
(* no error response carries one.                                           *)
ErrorResponded == Responded /\ req.status = 500

C21_StackOnlyInDevelopment ==
  ErrorResponded =>
    (Has(req.resBody, "stack") => nodeEnv = "development")

C21_Witness ==
  /\ ErrorResponded
  /\ nodeEnv = "development"
  /\ Has(req.resBody, "stack")

(* C22: after a record has been soft-deleted, a createUser whose email and  *)
(* phone number equal those of the deleted record and match no non-deleted  *)
(* record persists a new non-deleted record with a different id, and        *)
(* succeeds (201) whenever a token can be issued or none is needed.         *)
ReusesDeletedIdentity ==
  /\ Responded /\ IsRoute("POST", "/auth")
  /\ ValidCreateBody(req.body)
  /\ \A i \in ActiveIndexes(req.pre) :
       /\ req.pre[i].email # req.body.email
       /\ req.pre[i].phone.number # req.body.phone.number
  /\ \E i \in 1..Len(req.pre) :
       /\ req.pre[i].isDeleted
       /\ req.pre[i].email = req.body.email
       /\ req.pre[i].phone.number = req.body.phone.number

C23_NeverPurgedNeverRestored ==
  [][/\ Len(users') >= Len(users)
     /\ \A i \in 1..Len(users) :
          /\ users'[i].id = users[i].id
          /\ users[i].isDeleted => users'[i].isDeleted]_vars

C23_Witness ==
  /\ UpdateSucceeded
  /\ \E i \in 1..Len(req.pre) :
       /\ req.pre[i].id = req.params.userId
       /\ req.pre[i].isDeleted
       /\ users[i].isDeleted
       /\ users[i].name # req.pre[i].name

(* C24: whenever createUser persists a record with a password field, the    *)
(* stored value is the hash of a submitted password and never a submitted   *)
(* plaintext, whichever of password and provider the input carries.         *)
SubmittedPasswords ==
  {b.password : b \in {c \in ConcBodies : Has(c, "password")}}

C24_StoredPasswordIsHash ==
  \A i \in 1..Len(users) :
    users[i].password # Null =>
      /\ users[i].password \notin SubmittedPasswords
      /\ \E pw \in SubmittedPasswords :
           users[i].password = BcryptHash(pw, BCRYPT_ROUNDS)

(* C25: in every state reachable through the HTTP operations, every stored  *)
(* record has exactly one credential form: a password with no provider and  *)
(* no providerId, or a provider with a providerId and no password.          *)
C25_OneCredentialForm ==
  \A i \in 1..Len(users) :
    \/ /\ users[i].password # Null
       /\ users[i].provider = Null /\ users[i].providerId = Null
    \/ /\ users[i].password = Null
       /\ users[i].provider # Null /\ users[i].providerId # Null

C25_Witness ==
  /\ UpdateSucceeded
  /\ \E i, j \in 1..Len(users) :
       users[i].password # Null /\ users[j].provider # Null

(* C26: a token issued by the service is accepted by isLoggedIn in every    *)
(* state before its expiry, with its claims attached, whatever has happened *)
(* to the user's record since (updated, soft-deleted): the decision is made *)
(* from the token, the secret and the clock alone.                          *)
C26_TokenOutlivesUser ==
  [][(/\ req.chain # <<>>
      /\ Head(req.chain) = "isLoggedIn"
      /\ req'.chain # req.chain
      /\ ExtractToken(req'.headers) \in issued
      /\ now < JwtPayload(ExtractToken(req'.headers)).exp)
     => /\ Len(req'.chain) = 1
        /\ req'.user = <<JwtPayload(ExtractToken(req'.headers))>>]_vars

C26_Witness ==
  /\ Responded /\ Protected(req)
  /\ req.status = 200
  /\ req.user # <<>>
  /\ \E i \in 1..Len(req.pre) :
       /\ req.pre[i].id = req.user[1].userId
       /\ req.pre[i].isDeleted
       /\ req.pre[i].name = "Bob"

(* C27: a successful federated createUser (provider and providerId, no      *)
(* password) persists a record and returns the empty string as token; no    *)
(* token is generated, so it succeeds without a signing secret too.         *)
FederatedCreate ==
  /\ Responded /\ IsRoute("POST", "/auth")
  /\ ValidCreateBody(req.body)
  /\ Has(req.body, "provider")
  /\ req.svcCalls > 0

C27_FederatedGetsNoToken ==
  FederatedCreate =>
    /\ req.status \in {201, 500}
    /\ req.status = 500 => req.resBody.error = "User already exists."
    /\ req.status = 201 =>
         /\ req.resBody.data.token = ""
         /\ Len(users) = Len(req.pre) + 1
         /\ users[Len(users)].id = req.resBody.data.user.id
         /\ users[Len(users)].provider = req.body.provider
         /\ \A tok \in issued :
              JwtPayload(tok).userId # req.resBody.data.user.id

C27_Witness ==
  /\ FederatedCreate
  /\ req.status = 201
  /\ secretKey = ""

(* C28: when a storage call fails during a service operation, the error     *)
(* reaches the controller as the storage layer raised it, and the request   *)
(* is answered once, with status 500 and success false, never with a        *)
(* success response.                                                        *)
StorageCallFailed ==
  /\ req.method # "" /\ req.chain = <<>>
  /\ req.svcCalls > 0
  /\ \/ req.fault
     \/ /\ req.method \in {"PATCH", "DELETE"}
        /\ IndexOfId(req.pre, req.params.userId) = {}

C28_StorageFailureAnswered500 ==
  StorageCallFailed =>
    /\ req.status = 500
    /\ req.resBody.success = FALSE
    /\ req.resBody.error = IF req.fault THEN StorageError
                           ELSE "Record to update not found."
    /\ users = req.pre

C28_Witness ==
  /\ StorageCallFailed
  /\ req.fault
  /\ IsRoute("POST", "/auth")
  /\ req.status = 500
  /\ req.pre # <<>>

(* C29: a POST /auth that ends with an error response (a validation         *)
(* failure, an existing user, a missing password, or a failure to generate  *)
(* the token) leaves the stored records as they were before the request.    *)
C29_FailedCreateStoresNothing ==
  (Responded /\ IsRoute("POST", "/auth") /\ req.status # 201) =>
    users = req.pre

(* C30: no response body of POST /auth (201, 400, 500) holds the password   *)
(* the request submitted, nor its hash.                                     *)
C30_NoPasswordInResponse ==
  (Responded /\ IsRoute("POST", "/auth") /\ Has(req.body, "password")) =>
    LET secrets == {req.body.password,
                    BcryptHash(req.body.password, BCRYPT_ROUNDS)}
    IN /\ req.status = 201 => ~Has(req.resBody.data.user, "password")
       /\ req.status = 400 =>
            \A i \in DOMAIN req.resBody.details :
              req.resBody.details[i] \notin secrets
       /\ req.status = 500 =>
            ~ /\ Has(req.resBody.details, "body")
              /\ Has(req.resBody.details.body, "password")
              /\ req.resBody.details.body.password \in secrets

====
